---- MODULE Spec2Model ----
(***************************************************************************)
(* Two-stage contract analysis pipeline of HackMty-CapitalOne:             *)
(*   api_parseo_pdfs.py   folder of PDFs -> contract JSON (extraction)     *)
(*   backend/api_analisis.py   contract JSON -> cost analysis JSON, with   *)
(*                             the numeric adjustment of every partida     *)
(*   api_master.py, backend/api_master.py   the two orchestrators          *)
(*                                                                         *)
(* Numbers are fixed point.  Currency fields are integers in thousandths   *)
(* of a peso (3 decimals), so that round(x, 2) has something to do; the    *)
(* inputs that fall half way between two cents are multiples of 1/8 peso,  *)
(* which a binary float holds exactly, so Python's round() is half-even on *)
(* them.  A partida's diferencia_% is held in units of 1e-4 percent (the   *)
(* precision line 141 of api_analisis.py gives it); the summary's          *)
(* diferencia_porcentaje, which only the model supplies, in 1e-6 percent.  *)
(* Arithmetic is exact: float representation error is not modelled.        *)
(* assert statements are enabled (the interpreter is not run with -O).     *)
(***************************************************************************)
EXTENDS Integers, Sequences, FiniteSets, TLC

VARIABLES
    entry,                 \* which function the caller invoked
    folder,                \* state of folder_path on disk
    model_candidates,      \* the model_candidates argument (None or a list)
    ruta_intermedio,       \* TRUE when the caller passed ruta_intermedio
    ruta_salida,           \* TRUE when the caller passed ruta_salida
    validar_campos_final,  \* the orchestrator's validar_campos_final flag
    pc,                    \* position in the code
    modulo,                \* module whose code is running: "parseo" / "analisis"
    candidates,            \* list first_available_model iterates over
    idx,                   \* 1-based position of the loop variable m
    selected,              \* model returned by first_available_model (Option)
    accepts,               \* what each model id answers to a probe, once known
    requests,              \* every chat.completions.create call, in order
    contrato_json_str,     \* text returned by analizar_carpeta_obras (Option)
    data,                  \* analysis record inside analizar_costos_por_api (Option)
    reconciled,            \* TRUE once the numeric adjustment ran to its end
    intermedio,            \* content of the intermediate artifact file (Option)
    salida,                \* content of the final artifact file (Option)
    tiempos,               \* names of the per-stage durations measured so far
    result,                \* value returned to the caller (Option)
    error                  \* exception raised to the caller (Option)

vars == <<entry, folder, model_candidates, ruta_intermedio, ruta_salida,
          validar_campos_final, pc, modulo, candidates, idx, selected, accepts,
          requests, contrato_json_str, data, reconciled, intermedio, salida,
          tiempos, result, error>>

inputs == <<entry, folder, model_candidates, ruta_intermedio, ruta_salida,
            validar_campos_final>>

----------------------------------------------------------------------------
(* Bounds *)

\* longest model_candidates list a caller passes
MaxLen == 3
\* most partidas in an analysis response of a pipeline run
MaxPartidas == 2
\* largest amount of the reconciler's inputs, in eighths of a peso
MaxEighths == 12

----------------------------------------------------------------------------
(* Values *)

None == <<>>
Some(x) == <<x>>

SeqsUpTo(S, n) == UNION {[1..k -> S] : k \in 0..n}

Range(s) == {s[i] : i \in 1..Len(s)}

Abs(x) == IF x < 0 THEN -x ELSE x

RECURSIVE Pow10(_)
Pow10(n) == IF n = 0 THEN 1 ELSE 10 * Pow10(n - 1)

\* nearest integer to n/d, ties to the even one: round() of an exact value
RoundDiv(n, d) ==
    LET nn == IF d < 0 THEN -n ELSE n
        dd == Abs(d)
        q  == nn \div dd
        r  == nn % dd
    IN  IF 2 * r < dd THEN q
        ELSE IF 2 * r > dd THEN q + 1
        ELSE IF q % 2 = 0 THEN q ELSE q + 1

\* round(x, nd) of a number held with dec decimals
RoundTo(x, nd, dec) ==
    IF dec <= nd THEN x
    ELSE RoundDiv(x, Pow10(dec - nd)) * Pow10(dec - nd)

----------------------------------------------------------------------------
(* JSON values of a partida's and of the summary's fields *)

\* a field of a JSON object: missing key, null, a truthy non-number (a
\* non-empty string, list or object), a falsy non-number ("", [], {}), a number
Absent   == [t |-> "absent", v |-> 0]
Null     == [t |-> "null", v |-> 0]
Str      == [t |-> "str", v |-> 0]
EmptyStr == [t |-> "empty", v |-> 0]
Num(x)   == [t |-> "num", v |-> x]

\* isinstance(x, (int, float))
IsNumber(x) == x.t = "num"

\* p.get(k, 0)
GetOr0(x) == IF x.t = "absent" THEN Num(0) ELSE x

\* not x or x == 0
IsZero(x) == x.t \in {"null", "empty"} \/ (x.t = "num" /\ x.v = 0)

\* decimals the representation of each field carries
CurrencyDec == 3
PctDec == 4
ResumenPctDec == 6

\* _round_num(x, nd), for a field held with dec decimals
_round_num(x, nd, dec) ==
    IF IsNumber(x) THEN Num(RoundTo(x.v, nd, dec)) ELSE x

\* round((diff / costo_contrato) * 100, 4), in units of 1e-4 percent
PctRound(diff, c) ==
    LET n  == IF c < 0 THEN -(diff * 100) ELSE diff * 100
        cc == Abs(c)
        q  == n \div cc
        r  == n % cc
    IN  q * Pow10(PctDec) + RoundDiv(r * Pow10(PctDec), cc)

\* a partida, by the four fields the adjustment reads or writes
Partida(cc, pm, dif, pct) ==
    [costo_en_contrato |-> cc, precio_estimado_mercado |-> pm,
     diferencia |-> dif, diferencia_pct |-> pct]

\* costo_mercado - costo_contrato raises TypeError unless both are numbers
RestaFalla(costo_contrato, costo_mercado) ==
    ~IsNumber(costo_contrato) \/ ~IsNumber(costo_mercado)

\* the "Redondeos de campos" loop over one partida
RedondeoCampos(p) ==
    [costo_en_contrato       |-> _round_num(p.costo_en_contrato, 2, CurrencyDec),
     precio_estimado_mercado |-> _round_num(p.precio_estimado_mercado, 2, CurrencyDec),
     diferencia              |-> _round_num(p.diferencia, 2, CurrencyDec),
     diferencia_pct          |-> _round_num(p.diferencia_pct, 4, PctDec)]

\* variant of CeroDiferencias: the difference against a contract cost of 0 is
\* computed instead of forced to 0
CeroDiferencias_Computed(p) ==
    [p EXCEPT !.diferencia = GetOr0(p.precio_estimado_mercado),
              !.diferencia_pct = Num(0)]

\* lines 136-137: contract cost 0
CeroDiferencias(p) ==
    [p EXCEPT !.diferencia = Num(0), !.diferencia_pct = Num(0)]

\* variant of Diferencias: the percentage taken of the market price
Diferencias_OverMarket(p, costo_contrato, costo_mercado) ==
    LET diff == costo_mercado - costo_contrato
    IN  [p EXCEPT !.diferencia = _round_num(Num(diff), 2, CurrencyDec),
                  !.diferencia_pct =
                      IF costo_mercado = 0 THEN Num(0)
                      ELSE Num(PctRound(diff, costo_mercado))]

\* lines 139-141: the differences of two numbers, contract cost not 0
Diferencias(p, costo_contrato, costo_mercado) ==
    LET diff == costo_mercado - costo_contrato
    IN  [p EXCEPT !.diferencia = _round_num(Num(diff), 2, CurrencyDec),
                  !.diferencia_pct = Num(PctRound(diff, costo_contrato))]

\* body of "for p in data.get('partidas', [])" for one partida:
\* [ok |-> FALSE] when it raises TypeError, else the partida as left in place
AjustePartida(p) ==
    LET costo_contrato == GetOr0(p.costo_en_contrato)
        costo_mercado  == GetOr0(p.precio_estimado_mercado)
    IN  IF IsZero(costo_contrato)
        THEN [ok |-> TRUE, p |-> RedondeoCampos(CeroDiferencias(p))]
        ELSE IF RestaFalla(costo_contrato, costo_mercado)
        THEN [ok |-> FALSE, p |-> p]
        ELSE [ok |-> TRUE,
              p  |-> RedondeoCampos(Diferencias(p, costo_contrato.v, costo_mercado.v))]

\* the whole loop: partidas are adjusted in list order and the first TypeError
\* ends the function
RECURSIVE AjustePartidas(_)
AjustePartidas(ps) ==
    IF ps = <<>> THEN [ok |-> TRUE, ps |-> <<>>]
    ELSE LET h == AjustePartida(Head(ps))
         IN  IF ~h.ok THEN [ok |-> FALSE, ps |-> ps]
             ELSE LET t == AjustePartidas(Tail(ps))
                  IN  [ok |-> t.ok, ps |-> <<h.p>> \o t.ps]

\* resumen_general, by the four fields the adjustment rounds
Resumen(cc, pm, dt, dp) ==
    [costo_en_contrato |-> cc, precio_estimado_mercado |-> pm,
     diferencia_total |-> dt, diferencia_porcentaje |-> dp]

\* "Ajuste en resumen general"
AjusteResumen(rg) ==
    [costo_en_contrato       |-> _round_num(rg.costo_en_contrato, 2, CurrencyDec),
     precio_estimado_mercado |-> _round_num(rg.precio_estimado_mercado, 2, CurrencyDec),
     diferencia_total        |-> _round_num(rg.diferencia_total, 2, CurrencyDec),
     diferencia_porcentaje   |-> _round_num(rg.diferencia_porcentaje, 4, ResumenPctDec)]

\* top-level keys of the analysis record
RequiredKeys == <<"resumen_general", "partidas", "alertas", "recomendaciones">>

\* the analysis record: its top-level keys, and the two values the code reads
\* (_tiempos: the names under the "_tiempos" key, empty when the key is absent)
Record(keys, rg, ps) ==
    [keys |-> keys, resumen_general |-> rg, partidas |-> ps, _tiempos |-> {}]

\* a JSON text: json.dumps gives a valid one, json.loads raises on the others
Dumps(rec) == [valid |-> TRUE, value |-> Some(rec)]
BadText == [valid |-> FALSE, value |-> None]
Loads(text) == text.value[1]

----------------------------------------------------------------------------
(* Inputs and the environment's answers *)

\* api_parseo_pdfs.CANDIDATES_DEFAULT and api_analisis.CANDIDATES_DEFAULT
CANDIDATES_DEFAULT_parseo == <<"gpt-4o", "gpt-4o-mini", "o3-mini", "o1">>
CANDIDATES_DEFAULT_analisis == <<"gpt-4o", "gpt-4o-mini", "o3-mini">>

\* model ids are non-empty strings
ModelIds == Range(CANDIDATES_DEFAULT_parseo)

\* the token-limit parameter of a probe request
Params == {"max_completion_tokens", "max_tokens"}

\* the model_candidates argument: None, or a list
NoneArg == [given |-> FALSE, list |-> <<>>]
ListArg(l) == [given |-> TRUE, list |-> l]
CandidateArgs == {NoneArg} \cup {ListArg(l) : l \in SeqsUpTo(ModelIds, MaxLen)}

\* variant of OrDefault: only None is replaced by the default list
OrDefault_IsNone(arg, default) ==
    IF ~arg.given THEN default ELSE arg.list

\* model_candidates or CANDIDATES_DEFAULT: None and [] are both falsy
OrDefault(arg, default) ==
    IF ~arg.given \/ arg.list = <<>> THEN default ELSE arg.list

\* folder_path: not a directory, a directory without .pdf files, one with some
Folders == {"missing", "sin_pdfs", "con_pdfs"}

Entries == {"first_available_model_parseo", "first_available_model_analisis",
            "analizar_carpeta_obras", "analizar_costos_por_api",
            "api_master", "backend_api_master"}

Orchestrators == {"api_master", "backend_api_master"}

\* the contract record the extraction model answers with
Contrato == Record({"proyecto", "partidas"}, Resumen(Absent, Absent, Absent, Absent), <<>>)

\* partidas of the analysis responses of a pipeline run: contract cost 0 with
\* a market price and model-supplied differences, a regular one, one whose
\* contract cost is a string
PartidasMuestra ==
    {Partida(Num(0), Num(1500), Num(1500), Num(7770000)),
     Partida(Num(1000), Num(1500), Absent, Absent),
     Partida(Str, Num(1500), Num(0), Num(0))}

\* a summary whose four numbers all need rounding
ResumenMuestra ==
    {Resumen(Num(1004), Num(1500), Num(496), Num(49402390))}

KeySets == SUBSET Range(RequiredKeys)

\* analysis records whose partidas are drawn from P (at most n of them)
Records(P, n) ==
    {Record(ks, Resumen(Absent, Absent, Absent, Absent), <<>>) :
        ks \in KeySets \ {Range(RequiredKeys)}}
    \cup {Record(Range(RequiredKeys), rg, ps) :
            rg \in ResumenMuestra, ps \in SeqsUpTo(P, n)}

\* amounts of the reconciler's inputs, in thousandths of a peso: 0, an amount
\* that rounds to 0.00, and the multiples of 1/8 peso
Amounts == {0, 4} \cup {125 * k : k \in (0 - MaxEighths)..MaxEighths}

CostValues == {Absent, Null, Str, EmptyStr} \cup {Num(a) : a \in Amounts}

\* one partida over every pair of costs, with and without model-supplied
\* differences
PartidasAmplias ==
    {Partida(cc, pm, d[1], d[2]) :
        cc \in CostValues, pm \in CostValues,
        d \in {<<Absent, Absent>>, <<Num(7775), Num(1234567)>>, <<Str, Null>>}}

\* exceptions, by type, message and (for the orchestrator's KeyError) the
\* keys the message lists
Exc(type, msg, faltantes) == [type |-> type, msg |-> msg, faltantes |-> faltantes]

FolderMissing   == Exc("FileNotFoundError", "No existe la carpeta", <<>>)
NoPdf           == Exc("RuntimeError", "No se encontro ningun PDF en la carpeta.", <<>>)
NoModel         == Exc("RuntimeError", "No se encontro un modelo disponible.", <<>>)
ApiError        == Exc("APIError", "chat.completions.create", <<>>)
JsonError       == Exc("JSONDecodeError", "json.loads", <<>>)
KeysAssertion   == Exc("AssertionError", "El JSON no contiene las llaves requeridas", <<>>)
ResTypeError    == Exc("TypeError", "unsupported operand type(s) for -", <<>>)
MissingKeys(ks) == Exc("KeyError", "JSON final sin llaves requeridas", ks)

\* backend/api_master.py wraps whatever its try block raises
HTTPException(e) == Exc("HTTPException", e.msg, e.faltantes)

Ret(kind, val) == [kind |-> kind, val |-> val]

Req(kind, m, param, pos, ok) ==
    [modulo |-> modulo, kind |-> kind, model |-> m, param |-> param,
     pos |-> pos, ok |-> ok]

----------------------------------------------------------------------------
(* Initial states: one call of one entry point *)

InitOf(E, F, C) ==
    /\ entry \in E
    /\ folder \in (IF entry \in Orchestrators \cup {"analizar_carpeta_obras"}
                   THEN F ELSE {"con_pdfs"})
    /\ model_candidates \in
         (IF entry \in Orchestrators THEN {NoneArg}
          ELSE IF entry \in {"analizar_carpeta_obras", "analizar_costos_por_api"}
          THEN C
          ELSE C \ {NoneArg})
    /\ ruta_intermedio \in (IF entry = "api_master" THEN BOOLEAN ELSE {FALSE})
    /\ ruta_salida \in (IF entry = "api_master" THEN BOOLEAN ELSE {FALSE})
    /\ validar_campos_final \in (IF entry = "api_master" THEN BOOLEAN ELSE {TRUE})
    /\ pc = (IF entry \in Orchestrators THEN "check_folder"
             ELSE IF entry = "analizar_carpeta_obras" THEN "read_pdfs"
             ELSE IF entry = "analizar_costos_por_api" THEN "analisis_start"
             ELSE "select")
    /\ modulo = (IF entry \in {"first_available_model_analisis",
                               "analizar_costos_por_api"}
                 THEN "analisis" ELSE "parseo")
    /\ candidates = (IF entry \in {"first_available_model_parseo",
                                   "first_available_model_analisis"}
                     THEN model_candidates.list ELSE <<>>)
    /\ idx = 1
    /\ selected = None
    /\ accepts = [m \in ModelIds |-> None]
    /\ requests = <<>>
    /\ contrato_json_str = None
    /\ data = None
    /\ reconciled = FALSE
    /\ intermedio = None
    /\ salida = None
    /\ tiempos = {}
    /\ result = None
    /\ error = None

Init == InitOf(Entries, Folders, CandidateArgs)

----------------------------------------------------------------------------
(* Raising and returning *)

\* an exception leaves the function; inside the orchestrators' try block the
\* backend wraps it and api_master's finally block records the total time
Raise(e) ==
    /\ pc' = "failed"
    /\ error' = Some(IF entry = "backend_api_master" THEN HTTPException(e) ELSE e)
    /\ tiempos' = (IF entry = "api_master" THEN tiempos \cup {"total"} ELSE tiempos)
    /\ result' = result

\* the os.path.isdir check of the orchestrators precedes their try block
RaiseBeforeTry(e) ==
    /\ pc' = "failed"
    /\ error' = Some(e)
    /\ UNCHANGED <<tiempos, result>>

Return(r) ==
    /\ pc' = "done"
    /\ result' = Some(r)
    /\ error' = error

----------------------------------------------------------------------------
(* api_master.analizar_obras_completo, first lines *)

\* os.path.isdir(folder_path) is false
NotADirectory(f) == f = "missing"

CheckFolder ==
    /\ pc = "check_folder"
    /\ IF NotADirectory(folder)
       THEN RaiseBeforeTry(FolderMissing)
       ELSE /\ pc' = "read_pdfs"
            /\ UNCHANGED <<tiempos, result, error>>
    /\ UNCHANGED <<inputs, modulo, candidates, idx, selected, accepts, requests,
                   contrato_json_str, data, reconciled, intermedio, salida>>

\* variant of ContentEmpty: the empty content is not detected
ContentEmpty_Unchecked(f) == FALSE

\* read_pdfs_from_folder lines 65-72: no .pdf file, so the joined content is empty
ContentEmpty(f) == f = "sin_pdfs"

(* api_parseo_pdfs.read_pdfs_from_folder, then the first two lines of
   analizar_carpeta_obras *)
ReadPdfs ==
    /\ pc = "read_pdfs"
    /\ IF NotADirectory(folder) THEN Raise(FolderMissing) /\ UNCHANGED <<candidates, idx>>
       ELSE IF ContentEmpty(folder) THEN Raise(NoPdf) /\ UNCHANGED <<candidates, idx>>
       ELSE /\ pc' = "select"
            /\ candidates' = OrDefault(model_candidates, CANDIDATES_DEFAULT_parseo)
            /\ idx' = 1
            /\ UNCHANGED <<tiempos, result, error>>
    /\ UNCHANGED <<inputs, modulo, selected, accepts, requests,
                   contrato_json_str, data, reconciled, intermedio, salida>>

(* api_analisis.analizar_costos_por_api, argument of first_available_model *)
IniciarAnalisis ==
    /\ pc = "analisis_start"
    /\ pc' = "select"
    /\ candidates' = OrDefault(model_candidates, CANDIDATES_DEFAULT_analisis)
    /\ idx' = 1
    /\ UNCHANGED <<inputs, modulo, selected, accepts, requests, contrato_json_str, data,
                   reconciled, intermedio, salida, tiempos, result, error>>

----------------------------------------------------------------------------
(* first_available_model *)

\* what model m answers to probes: fixed per model id, learnt at its first probe
Answers(m) == IF accepts[m] = None THEN SUBSET Params ELSE {accepts[m][1]}

\* the parameter of the first request to a candidate
FirstParam == IF modulo = "parseo" THEN "max_completion_tokens" ELSE "max_tokens"

\* variants of HasFallback: the retry dropped; the retry in both modules
HasFallback_Never == FALSE
HasFallback_Always == TRUE

\* api_parseo_pdfs retries a failed probe once, with max_tokens
HasFallback == modulo = "parseo"

\* where first_available_model returns to
AfterSelect(m) ==
    IF entry \in {"first_available_model_parseo", "first_available_model_analisis"}
    THEN Return(Ret("model", m))
    ELSE pc' = "call" /\ UNCHANGED <<result, error>>

\* one iteration of "for m in candidates": the request to candidates[idx]
Probe ==
    /\ pc = "select"
    /\ idx <= Len(candidates)
    /\ LET m == candidates[idx] IN
       \E a \in Answers(m) :
          /\ accepts' = [accepts EXCEPT ![m] = Some(a)]
          /\ requests' = Append(requests, Req("probe", m, FirstParam, idx, FirstParam \in a))
          /\ IF FirstParam \in a
             THEN selected' = Some(m) /\ AfterSelect(m) /\ idx' = idx
             ELSE /\ selected' = selected
                  /\ UNCHANGED <<result, error>>
                  /\ IF HasFallback
                     THEN pc' = "select_fallback" /\ idx' = idx
                     ELSE pc' = "select" /\ idx' = idx + 1
    /\ UNCHANGED <<inputs, modulo, candidates, contrato_json_str, data,
                   reconciled, intermedio, salida, tiempos>>

\* api_parseo_pdfs lines 83-84: the same candidate again, with max_tokens
ProbeFallback ==
    /\ pc = "select_fallback"
    /\ LET m == candidates[idx] IN
       \E a \in Answers(m) :
          /\ accepts' = [accepts EXCEPT ![m] = Some(a)]
          /\ requests' = Append(requests, Req("probe", m, "max_tokens", idx, "max_tokens" \in a))
          /\ IF "max_tokens" \in a
             THEN selected' = Some(m) /\ AfterSelect(m) /\ idx' = idx
             ELSE /\ selected' = selected
                  /\ UNCHANGED <<result, error>>
                  /\ pc' = "select"
                  /\ idx' = idx + 1
    /\ UNCHANGED <<inputs, modulo, candidates, contrato_json_str, data,
                   reconciled, intermedio, salida, tiempos>>

\* the loop ends with no model selected
NoAvailableModel ==
    /\ pc = "select"
    /\ idx > Len(candidates)
    /\ Raise(NoModel)
    /\ UNCHANGED <<inputs, modulo, candidates, idx, selected, accepts, requests,
                   contrato_json_str, data, reconciled, intermedio, salida>>

----------------------------------------------------------------------------
(* api_parseo_pdfs.analizar_carpeta_obras, from the stage request on *)

StageReq(ok) == Req("stage", selected[1], "response_format", 0, ok)

\* the request raises, or answers a text that json.loads (line 106) rejects,
\* or answers the contract
ExtractionCall ==
    /\ pc = "call"
    /\ modulo = "parseo"
    /\ \/ /\ requests' = Append(requests, StageReq(FALSE))
          /\ Raise(ApiError)
          /\ UNCHANGED contrato_json_str
       \/ /\ requests' = Append(requests, StageReq(TRUE))
          /\ \E text \in {BadText, Dumps(Contrato)} :
               IF ~text.valid
               THEN Raise(JsonError) /\ UNCHANGED contrato_json_str
               ELSE IF entry = "analizar_carpeta_obras"
               THEN Return(Ret("text", text)) /\ UNCHANGED <<contrato_json_str, tiempos>>
               ELSE /\ contrato_json_str' = Some(text)
                    /\ pc' = "extracted"
                    /\ tiempos' = tiempos \cup {"extraccion"}
                    /\ UNCHANGED <<result, error>>
    /\ UNCHANGED <<inputs, modulo, candidates, idx, selected, accepts, data,
                   reconciled, intermedio, salida>>

\* variant of _write_json: the file is left as it was
_write_json_Skip(requested, file, content) == file

\* _write_json(path, data)
_write_json(requested, file, content) == IF requested THEN Some(content) ELSE file

(* the orchestrators between the two stages: analizar_carpeta_obras has
   returned (its locals are gone), _ensure_json_dict of the contract text
   and, in api_master.py, the intermediate artifact *)
Extracted ==
    /\ pc = "extracted"
    /\ LET contrato_json == Loads(contrato_json_str[1]) IN
       intermedio' = _write_json(ruta_intermedio, intermedio, contrato_json)
    /\ pc' = "analisis_start"
    /\ modulo' = "analisis"
    /\ candidates' = <<>>
    /\ idx' = 1
    /\ selected' = None
    /\ UNCHANGED <<inputs, accepts, requests, contrato_json_str, data,
                   reconciled, salida, tiempos, result, error>>

----------------------------------------------------------------------------
(* api_analisis.analizar_costos_por_api, from the stage request on *)

\* the stage request and json.loads of the answer (line 111), the answer being
\* drawn from the texts T
AnalysisCallOver(T) ==
    /\ pc = "call"
    /\ modulo = "analisis"
    /\ \/ /\ requests' = Append(requests, StageReq(FALSE))
          /\ Raise(ApiError)
          /\ data' = data
       \/ /\ requests' = Append(requests, StageReq(TRUE))
          /\ \E text \in T :
               IF ~text.valid
               THEN Raise(JsonError) /\ data' = data
               ELSE /\ data' = Some(Loads(text))
                    /\ pc' = "assert_keys"
                    /\ UNCHANGED <<tiempos, result, error>>
    /\ UNCHANGED <<inputs, modulo, candidates, idx, selected, accepts,
                   contrato_json_str, reconciled, intermedio, salida>>

AnalysisCall ==
    AnalysisCallOver({BadText} \cup {Dumps(r) : r \in Records(PartidasMuestra, MaxPartidas)})

\* variant of Faltantes: only resumen_general and partidas are looked for
Faltantes_TwoKeys(d) ==
    SelectSeq(SubSeq(RequiredKeys, 1, 2), LAMBDA k : k \notin d.keys)

\* the keys of RequiredKeys that record d lacks, in the order of RequiredKeys
Faltantes(d) == SelectSeq(RequiredKeys, LAMBDA k : k \notin d.keys)

\* lines 114-115: the assert on the four keys
AssertKeys ==
    /\ pc = "assert_keys"
    /\ IF Faltantes(data[1]) = <<>>
       THEN pc' = "ajustes" /\ UNCHANGED <<tiempos, result, error>>
       ELSE Raise(KeysAssertion)
    /\ UNCHANGED <<inputs, modulo, candidates, idx, selected, accepts, requests,
                   contrato_json_str, data, reconciled, intermedio, salida>>

\* lines 117-154: the adjustment of the summary and of every partida, in
\* place, then json.dumps of the record
Ajustes ==
    /\ pc = "ajustes"
    /\ LET d  == data[1]
           rg == AjusteResumen(d.resumen_general)
           r  == AjustePartidas(d.partidas)
           nd == [d EXCEPT !.resumen_general = rg, !.partidas = r.ps]
       IN  IF ~r.ok
           THEN Raise(ResTypeError) /\ UNCHANGED <<data, reconciled>>
           ELSE /\ data' = Some(nd)
                /\ reconciled' = TRUE
                /\ IF entry = "analizar_costos_por_api"
                   THEN Return(Ret("text", Dumps(nd))) /\ UNCHANGED tiempos
                   ELSE /\ pc' = "final"
                        /\ tiempos' = tiempos \cup {"analisis_costos"}
                        /\ UNCHANGED <<result, error>>
    /\ UNCHANGED <<inputs, modulo, candidates, idx, selected, accepts, requests,
                   contrato_json_str, intermedio, salida>>

----------------------------------------------------------------------------
(* the orchestrators after the analysis stage *)

TimingNames == {"extraccion", "analisis_costos", "total"}

\* api_master.py lines 74-92: _ensure_json_dict, the key check, the final
\* artifact; the record is returned as the analysis stage gave it
FinalApiMaster ==
    /\ pc = "final"
    /\ entry = "api_master"
    /\ LET final_json == Loads(Dumps(data[1]))
           faltantes  == Faltantes(final_json)
       IN  IF validar_campos_final /\ faltantes # <<>>
           THEN Raise(MissingKeys(faltantes)) /\ UNCHANGED salida
           ELSE /\ salida' = _write_json(ruta_salida, salida, final_json)
                /\ tiempos' = tiempos \cup {"total"}
                /\ Return(Ret("record", final_json))
    /\ UNCHANGED <<inputs, modulo, candidates, idx, selected, accepts, requests,
                   contrato_json_str, data, reconciled, intermedio>>

\* variant of AttachTiempos: the total is left out
AttachTiempos_NoTotal(final_json) ==
    [final_json EXCEPT !.keys = @ \cup {"_tiempos"},
                       !._tiempos = {"extraccion", "analisis_costos"}]

\* what backend/api_master.py attaches to the record it returns
AttachTiempos(final_json) ==
    [final_json EXCEPT !.keys = @ \cup {"_tiempos"}, !._tiempos = TimingNames]

\* backend/api_master.py lines 51-58
FinalBackend ==
    /\ pc = "final"
    /\ entry = "backend_api_master"
    /\ LET final_json == Loads(Dumps(data[1])) IN
       /\ tiempos' = tiempos \cup {"total"}
       /\ Return(Ret("record", AttachTiempos(final_json)))
    /\ UNCHANGED <<inputs, modulo, candidates, idx, selected, accepts, requests,
                   contrato_json_str, data, reconciled, intermedio, salida>>

----------------------------------------------------------------------------

Next ==
    \/ CheckFolder
    \/ ReadPdfs
    \/ IniciarAnalisis
    \/ Probe
    \/ ProbeFallback
    \/ NoAvailableModel
    \/ ExtractionCall
    \/ Extracted
    \/ AnalysisCall
    \/ AssertKeys
    \/ Ajustes
    \/ FinalApiMaster
    \/ FinalBackend

Spec == Init /\ [][Next]_vars

----------------------------------------------------------------------------
(* analizar_costos_por_api alone, over every pair of costs of one partida *)

AnalysisCallAmplio ==
    AnalysisCallOver({BadText} \cup {Dumps(r) : r \in Records(PartidasAmplias, 1)})

InitRec == InitOf({"analizar_costos_por_api"}, {"con_pdfs"}, {NoneArg})

NextRec ==
    \/ IniciarAnalisis
    \/ Probe
    \/ NoAvailableModel
    \/ AnalysisCallAmplio
    \/ AssertKeys
    \/ Ajustes

SpecRec == InitRec /\ [][NextRec]_vars

----------------------------------------------------------------------------
(* Model selection: C1, C2, C10 *)

SelectEntries == {"first_available_model_parseo", "first_available_model_analisis"}
StageEntries == {"analizar_carpeta_obras", "analizar_costos_por_api"}

Terminal == pc \in {"done", "failed"}

\* candidate m completes a probe of the running module's selector without
\* error: api_analisis sends max_tokens only, api_parseo_pdfs either parameter
Reachable(m) ==
    /\ accepts[m] # None
    /\ IF modulo = "parseo" THEN accepts[m][1] # {} ELSE "max_tokens" \in accepts[m][1]

\* candidate m was probed and no probe of the running module's selector completes
Unreachable(m) == accepts[m] # None /\ ~Reachable(m)

\* the probe requests of the running selection to the candidate at position j
ProbesAt(j) ==
    {k \in 1..Len(requests) :
        /\ requests[k].kind = "probe"
        /\ requests[k].modulo = modulo
        /\ requests[k].pos = j}

StageRequests == {k \in 1..Len(requests) : requests[k].kind = "stage"}

IsNoModel == error # None /\ error[1].msg = NoModel.msg /\ error[1].type \in {"RuntimeError", "HTTPException"}

\* C1: when first_available_model returns, it returns the earliest reachable
\* candidate in list order: every candidate before it was probed and every
\* probe of it failed, no candidate after it was probed; and it fails only
\* when no candidate is reachable.
C1_EarliestReachable ==
    /\ selected # None =>
         /\ idx \in 1..Len(candidates)
         /\ candidates[idx] = selected[1]
         /\ Reachable(selected[1])
         /\ \A j \in 1..(idx - 1) :
              /\ Unreachable(candidates[j])
              /\ ProbesAt(j) # {}
              /\ \A k \in ProbesAt(j) : ~requests[k].ok
         /\ \A j \in (idx + 1)..Len(candidates) : ProbesAt(j) = {}
    /\ IsNoModel => \A j \in 1..Len(candidates) : Unreachable(candidates[j])

\* only the second of three candidates answers, and it is returned
C1_Witness ==
    /\ entry \in SelectEntries
    /\ pc = "done"
    /\ Len(candidates) = 3
    /\ idx = 2
    /\ result = Some(Ret("model", candidates[2]))
    /\ candidates[1] # candidates[2]

\* the list the caller gave is empty or every candidate of it was found unreachable
NoneReachable == \A m \in Range(model_candidates.list) : Unreachable(m)

\* C2 as stated: an empty or fully unreachable list, given to
\* first_available_model or as model_candidates to a stage, ends in the
\* no-available-model error with no stage request issued.
C2_Original ==
    (/\ Terminal
     /\ entry \in SelectEntries \cup StageEntries
     /\ model_candidates.given
     /\ folder = "con_pdfs"
     /\ NoneReachable)
    => (IsNoModel /\ StageRequests = {})

\* C2 amended: the same for first_available_model called directly and for a
\* non-empty fully unreachable model_candidates; an empty model_candidates is
\* replaced by the module's CANDIDATES_DEFAULT, like None.
C2_Amended ==
    /\ (/\ Terminal
        /\ entry \in SelectEntries \cup StageEntries
        /\ model_candidates.given
        /\ folder = "con_pdfs"
        /\ entry \in SelectEntries \/ model_candidates.list # <<>>
        /\ NoneReachable)
       => (IsNoModel /\ StageRequests = {})
    /\ (/\ entry \in StageEntries
        /\ model_candidates.given
        /\ model_candidates.list = <<>>
        /\ pc \notin {"read_pdfs", "analisis_start"}
        /\ folder = "con_pdfs")
       => candidates = (IF modulo = "parseo" THEN CANDIDATES_DEFAULT_parseo
                        ELSE CANDIDATES_DEFAULT_analisis)

\* a stage given two candidates, both unreachable, failed without a stage request
C2_Witness ==
    /\ entry \in StageEntries
    /\ pc = "failed"
    /\ Len(model_candidates.list) = 2
    /\ NoneReachable
    /\ IsNoModel
    /\ StageRequests = {}

ProbeCount == Cardinality({k \in 1..Len(requests) :
                 requests[k].kind = "probe" /\ requests[k].modulo = modulo})

\* C10 as stated: a selection sends each candidate at most one probe request,
\* so at most Len(candidates) probe requests in all.
C10_Original ==
    /\ \A j \in 1..Len(candidates) : Cardinality(ProbesAt(j)) <= 1
    /\ ProbeCount <= Len(candidates)

\* C10 amended: api_analisis sends each candidate at most one probe request;
\* api_parseo_pdfs sends at most two, the second (max_tokens) only after the
\* first (max_completion_tokens) failed, and none after a probe succeeded; a
\* selection sends at most Len(candidates), resp. 2 * Len(candidates), probes.
C10_Amended ==
    /\ \A j \in 1..Len(candidates) :
         LET P == ProbesAt(j) IN
         IF modulo = "analisis"
         THEN /\ Cardinality(P) <= 1
              /\ \A k \in P : requests[k].param = "max_tokens"
         ELSE /\ Cardinality(P) <= 2
              /\ \A k \in P :
                   \/ requests[k].param = "max_completion_tokens"
                   \/ /\ requests[k].param = "max_tokens"
                      /\ k - 1 \in P
                      /\ requests[k - 1].param = "max_completion_tokens"
                      /\ ~requests[k - 1].ok
              /\ \A k1, k2 \in P : (k1 # k2) => requests[k1].param # requests[k2].param
    /\ ProbeCount <= (IF modulo = "analisis" THEN 1 ELSE 2) * Len(candidates)

\* api_parseo_pdfs probed its first candidate twice and its second once
C10_Witness ==
    /\ modulo = "parseo"
    /\ Len(candidates) >= 2
    /\ Cardinality(ProbesAt(1)) = 2
    /\ Cardinality(ProbesAt(2)) = 1
    /\ selected # None

----------------------------------------------------------------------------
(* The numeric adjustment of a partida: C3, C4, C9 *)

\* the step in which the adjustment of lines 117-146 runs to its end
AjustesDone == pc = "ajustes" /\ pc' \in {"done", "final"}

PartidasIn == data[1].partidas
PartidasOut == data'[1].partidas

\* C3: every partida whose contract cost, as read by the adjustment, is
\* exactly 0 leaves it with diferencia = 0 and diferencia_% = 0, whatever its
\* market price and whatever differences the model supplied; a record of such
\* partidas never makes the adjustment raise.
C3_ZeroContract ==
    [][pc = "ajustes" =>
         /\ (\A i \in DOMAIN PartidasIn : PartidasIn[i].costo_en_contrato = Num(0))
               => pc' # "failed"
         /\ AjustesDone =>
              \A i \in DOMAIN PartidasIn :
                 PartidasIn[i].costo_en_contrato = Num(0) =>
                    /\ PartidasOut[i].diferencia = Num(0)
                    /\ PartidasOut[i].diferencia_pct = Num(0)]_vars

\* a partida of contract cost 0, market price 1.5 and model-supplied
\* differences was adjusted to differences of 0
C3_Witness ==
    /\ reconciled
    /\ pc = "done"
    /\ Len(data[1].partidas) = 1
    /\ data[1].partidas[1] = Partida(Num(0), Num(1500), Num(0), Num(0))
    /\ requests # <<>>

\* y is x rounded to a multiple of step: nearest, and exactly half way only
\* when y is the even multiple
IsRounded(y, x, step) ==
    /\ y % step = 0
    /\ 2 * Abs(y - x) <= step
    /\ 2 * Abs(y - x) = step => (y \div step) % 2 = 0

\* y (in 1e-4 percent) is diff / c * 100 rounded to 4 decimals
IsPctOf(y, diff, c) ==
    /\ 2 * Abs(y * c - diff * 1000000) <= Abs(c)
    /\ 2 * Abs(y * c - diff * 1000000) = Abs(c) => y % 2 = 0

\* C4: every partida with a numeric contract cost other than 0 and a numeric
\* market price leaves the adjustment with
\* diferencia = round(precio_estimado_mercado - costo_en_contrato, 2) and
\* diferencia_% = round((precio_estimado_mercado - costo_en_contrato) /
\* costo_en_contrato * 100, 4), whatever differences the model supplied.
C4_Recomputed ==
    [][AjustesDone =>
         \A i \in DOMAIN PartidasIn :
            LET cc == PartidasIn[i].costo_en_contrato
                pm == PartidasIn[i].precio_estimado_mercado
                o  == PartidasOut[i]
            IN  (IsNumber(cc) /\ cc.v # 0 /\ IsNumber(pm)) =>
                  /\ IsNumber(o.diferencia)
                  /\ IsNumber(o.diferencia_pct)
                  /\ o.diferencia.v = RoundTo(pm.v - cc.v, 2, CurrencyDec)
                  /\ IsRounded(o.diferencia.v, pm.v - cc.v, 10)
                  /\ o.diferencia_pct.v = PctRound(pm.v - cc.v, cc.v)
                  /\ Abs(pm.v - cc.v) <= 2000 =>
                        IsPctOf(o.diferencia_pct.v, pm.v - cc.v, cc.v)]_vars

\* contract 1.000, market 1.500: diferencia 0.50 and diferencia_% 50.0000
C4_Witness ==
    /\ reconciled
    /\ pc = "done"
    /\ Len(data[1].partidas) = 1
    /\ data[1].partidas[1] = Partida(Num(1000), Num(1500), Num(500), Num(500000))

\* a cost as the claim has the adjustment read it: 0 unless a number
AsZero(x) == IF IsNumber(x) THEN x ELSE Num(0)

\* the differences defined for a partida once its costs are read that way
ExpectedOf(p) ==
    AjustePartida([p EXCEPT !.costo_en_contrato = AsZero(@),
                            !.precio_estimado_mercado = AsZero(@)]).p

\* C9 as stated: a contract or market cost that is absent or not a number is
\* read as 0: the adjustment never raises and leaves every partida with the
\* differences defined for the value 0.
C9_Original ==
    [][pc = "ajustes" =>
         /\ pc' # "failed"
         /\ \A i \in DOMAIN PartidasIn :
              /\ PartidasOut[i].diferencia = ExpectedOf(PartidasIn[i]).diferencia
              /\ PartidasOut[i].diferencia_pct = ExpectedOf(PartidasIn[i]).diferencia_pct]_vars

----------------------------------------------------------------------------
(* The pipeline: C5, C6, C7, C8 *)

\* the required top-level keys the analysis record in hand lacks
MissingOf(d) == Range(RequiredKeys) \ d.keys

\* the analysis record was parsed, lacks a required key, and validation is over
ValidationFailed ==
    /\ data # None
    /\ MissingOf(data[1]) # {}
    /\ pc # "assert_keys"

\* C5 as stated: when the parsed analysis record lacks some of the required
\* keys, the run fails with an error that lists exactly the missing keys.
C5_Original ==
    (entry \in Orchestrators \cup {"analizar_costos_por_api"} /\ ValidationFailed)
    => /\ pc = "failed"
       /\ error # None
       /\ Range(error[1].faltantes) = MissingOf(data[1])

\* C6: once validation of the analysis record has failed in an orchestrator
\* run, the run has ended in failure, the record was not adjusted, nothing was
\* returned, the final artifact was not written, and the intermediate
\* artifact holds the contract exactly when ruta_intermedio was given.
C6_NoPartialFinal ==
    (entry \in Orchestrators /\ ValidationFailed)
    => /\ pc = "failed"
       /\ error # None
       /\ ~reconciled
       /\ result = None
       /\ salida = None
       /\ intermedio = (IF ruta_intermedio THEN Some(Contrato) ELSE None)

\* api_master.py, both paths given, the record lacks alertas: failed, the
\* intermediate artifact is on disk, the final one is not
C6_Witness ==
    /\ entry = "api_master"
    /\ ruta_intermedio
    /\ ruta_salida
    /\ pc = "failed"
    /\ data # None
    /\ MissingOf(data[1]) = {"alertas"}
    /\ intermedio = Some(Contrato)
    /\ salida = None

\* C7: a run against a folder that is missing or holds no .pdf file issues no
\* request at all, probe or stage, and does not end in success.
C7_NoModelCall ==
    (entry \in Orchestrators \cup {"analizar_carpeta_obras"} /\ folder # "con_pdfs")
    => /\ requests = <<>>
       /\ pc # "done"
       /\ pc \in {"check_folder", "read_pdfs", "failed"}
       /\ pc = "failed" => error # None /\ error[1].msg \in {FolderMissing.msg, NoPdf.msg}

\* an orchestrator run against a folder without .pdf files has failed
C7_Witness ==
    /\ entry \in Orchestrators
    /\ folder = "sin_pdfs"
    /\ pc = "failed"
    /\ error # None
    /\ error[1].msg = NoPdf.msg
    /\ requests = <<>>

\* C8 as stated: the record every successful orchestrator run returns carries
\* the three per-stage timings as metadata.
C8_Original ==
    (entry \in Orchestrators /\ pc = "done")
    => /\ "_tiempos" \in result[1].val.keys
       /\ result[1].val._tiempos = TimingNames

\* C8 amended: backend/api_master.py returns the adjusted record with the
\* three timings attached under "_tiempos"; api_master.py measures the same
\* three timings but returns the adjusted record as it is, without them.
C8_Amended ==
    (entry \in Orchestrators /\ pc = "done")
    => /\ reconciled
       /\ tiempos = TimingNames
       /\ IF entry = "backend_api_master"
          THEN /\ result[1].val.keys = data[1].keys \cup {"_tiempos"}
               /\ result[1].val._tiempos = TimingNames
               /\ [result[1].val EXCEPT !.keys = data[1].keys, !._tiempos = {}] = data[1]
          ELSE result[1].val = data[1] /\ "_tiempos" \notin result[1].val.keys

\* a successful run of each orchestrator's kind: here the backend's
C8_Witness ==
    /\ entry = "backend_api_master"
    /\ pc = "done"
    /\ result # None
    /\ result[1].val._tiempos = TimingNames
    /\ Len(result[1].val.partidas) = 2

----------------------------------------------------------------------------
(* The order of the stages: C11 *)

\* positions in the log of the analysis stage's requests, probes included
AnalysisRequests == {k \in 1..Len(requests) : requests[k].modulo = "analisis"}

\* positions of the extraction stage's answered stage requests
ExtractionAnswers ==
    {k \in 1..Len(requests) :
        /\ requests[k].modulo = "parseo"
        /\ requests[k].kind = "stage"
        /\ requests[k].ok}

\* analizar_carpeta_obras returned a text that parses as JSON
ExtractionParsed == contrato_json_str # None /\ contrato_json_str[1].valid

\* C11: in an orchestrator run every request of the analysis stage, probe or
\* stage request, comes after the extraction stage's answer, which parsed as
\* JSON, and after the intermediate artifact was written when ruta_intermedio
\* was given; an artifact exists only after a parsed extraction; a run whose
\* extraction failed (folder, model selection, request or JSON parse) has
\* issued no analysis request and written no artifact.
C11_StagesOrdered ==
    entry \in Orchestrators =>
      /\ \A k \in AnalysisRequests :
            /\ ExtractionParsed
            /\ \E j \in ExtractionAnswers : j < k
            /\ \A j \in 1..Len(requests) : requests[j].modulo = "parseo" => j < k
            /\ ruta_intermedio => intermedio = Some(Contrato)
      /\ intermedio # None =>
            ExtractionParsed /\ ruta_intermedio /\ intermedio = Some(Contrato)
      /\ salida # None => ExtractionParsed /\ AnalysisRequests # {}
      /\ (pc = "failed" /\ ~ExtractionParsed) =>
            AnalysisRequests = {} /\ intermedio = None /\ salida = None

\* api_master.py with ruta_intermedio: the artifact is on disk and the
\* analysis stage has sent its first probe
C11_Witness ==
    /\ entry = "api_master"
    /\ ruta_intermedio
    /\ intermedio = Some(Contrato)
    /\ Cardinality(AnalysisRequests) = 1
    /\ ExtractionAnswers # {}

----------------------------------------------------------------------------
(* The record the analysis stage returns: C12 *)

\* C12 as stated: in the record the adjustment leaves, every partida whose
\* costo_en_contrato is 0 has diferencia = 0 and diferencia_% = 0 (a second
\* adjustment of the record would otherwise change it), also when the
\* contract cost was not 0 before it was rounded.
C12_Original ==
    (reconciled /\ data # None) =>
       \A i \in DOMAIN data[1].partidas :
          data[1].partidas[i].costo_en_contrato = Num(0) =>
             /\ data[1].partidas[i].diferencia = Num(0)
             /\ data[1].partidas[i].diferencia_pct = Num(0)

====
